---- MODULE Spec2Model ----
(***************************************************************************)
(* A model of naucse's core: the git identifier encoder and the Fetcher    *)
(* of naucse/compiled_renderer.py, and the lazy lesson resolution and      *)
(* freeze lifecycle of Course in naucse/models.py.                         *)
(*                                                                         *)
(* Four specifications share the module's variables:                       *)
(*   SpecIdent  - git_identifer applied to a pair of input strings,        *)
(*   SpecFetch  - one thread calling Fetcher.fetch and register_branch on  *)
(*                Fetchers that share one bare repository, as time passes, *)
(*   SpecFetchConc - two threads making those calls at one instant,        *)
(*   SpecCourse - one Course driven through its lesson operations.         *)
(***************************************************************************)
EXTENDS Integers, Sequences, FiniteSets, TLC

VARIABLES
    \* ---- git_identifer ----
    text1, text2,       \* the two input strings (sequences of code points)
    ident1, ident2,     \* git_identifer of each, NoIdent before the call
    \* ---- Fetcher ----
    clock,              \* datetime.datetime.now(), in minutes
    main_lock,          \* the thread holding main_lock, or NoThread
    pc,                 \* pc[t]: where thread t is
    call,               \* call[t]: the arguments of t's current call
    to_fetch,           \* to_fetch[t]: fetch's local after filter_branches_to_fetch
    fnow,               \* fnow[t]: fetch's local `now`
    regRef,             \* regRef[t]: the set object register_branch got from setdefault
    registered_branches,\* registered_branches[f][url]: set of branches
    fetched_branches,   \* fetched_branches[f][url]: set of branches
    last_fetch,         \* the repository's config: naucse.last_fetch.<ident>.<branch>
    returned,           \* returned[<<f, url, branch>>]: the fetch calls that have returned
    ncalls,             \* calls started so far
    \* ---- Course ----
    cpc,                \* where the course's current operation is
    renderer,           \* the kind of Course.renderer
    op,                 \* the operation in progress: [name, arg]
    lessons,            \* Course._lessons: slug -> lesson, NoLesson when absent
    order,              \* the keys of Course._lessons in insertion order
    requested,          \* Course._requested_lessons
    frozen, freezing,   \* Course._frozen, Course._freezing
    materials,          \* the lesson slugs of the sessions' materials
    link_depth,         \* load_all_lessons' local
    walk,               \* the lessons load_all_lessons has still to freeze
    slugs,              \* load_lessons' local: the slugs still to insert
    new_lessons,        \* load_lessons' local: the loaded lessons
    ret,                \* how the last operation ended: [op, arg, res]
    rcalls,             \* the renderer.get_lessons calls of the operation
    inserted,           \* the slugs the operation added to _lessons
    entry,              \* the flags when the operation began
    \* ---- load_all_lessons on long reference graphs ----
    d_pc,               \* where load_all_lessons is
    d_shape,            \* the reference graph of the course's lessons
    d_lessons,          \* the keys of Course._lessons
    d_requested,        \* Course._requested_lessons
    d_link_depth,       \* load_all_lessons' local
    d_batch,            \* the slugs of the last renderer.get_lessons call
    d_nbatches,         \* the renderer.get_lessons calls so far
    d_res,              \* how load_all_lessons ended
    \* ---- Root ----
    courses,            \* Root.courses: slug -> course, NoCourse when absent
    run_years,          \* Root.run_years: year -> RunYear (made, runs)
    self_study_courses, \* Root.self_study_courses: slug -> course object
    nloads,             \* the courses loaded so far
    r_ret,              \* how the last load ended: [res, obj]
    \* ---- fix_session_time ----
    t_pc,               \* "called" before fix_session_time runs, "done" after
    session_time,       \* its arguments
    session_date,
    default_time,
    default_timezone,
    session_name,
    t_result,           \* what it returned or raised
    \* ---- one CourseHTMLFragment ----
    fr_path,            \* whether the fragment was built from {'path': ...}
    fr_content,         \* CourseHTMLFragment._content, NoContent for None
    fr_file,            \* the text of the file at the path, NoFile when missing
    fr_calls,           \* the renderer.get_path_or_file calls so far
    fr_reads,           \* the reads of the fragment so far
    fr_first,           \* what the first read that succeeded returned
    fr_ret,             \* how the last read ended: [res, value]
    \* ---- one arca_renderer.Renderer ----
    a_pc,               \* "new", "made" (constructed) or "refused"
    a_patterns,         \* trusted_repo_patterns
    a_url, a_branch,    \* the constructor's arguments
    a_calls             \* the calls of Arca methods so far

identVars == <<text1, text2, ident1, ident2>>
fetchVars == <<clock, main_lock, pc, call, to_fetch, fnow, regRef,
               registered_branches, fetched_branches, last_fetch, returned, ncalls>>
courseVars == <<cpc, renderer, op, lessons, order, requested, frozen, freezing, materials,
                link_depth, walk, slugs, new_lessons, ret, rcalls, inserted,
                entry>>
deepVars == <<d_pc, d_shape, d_lessons, d_requested, d_link_depth, d_batch,
              d_nbatches, d_res>>
rootVars == <<courses, run_years, self_study_courses, nloads, r_ret>>
timeVars == <<t_pc, session_time, session_date, default_time, default_timezone,
              session_name, t_result>>
fragVars == <<fr_path, fr_content, fr_file, fr_calls, fr_reads, fr_first, fr_ret>>
arcaVars == <<a_pc, a_patterns, a_url, a_branch, a_calls>>
moreVars == <<fragVars, arcaVars>>
restVars == <<deepVars, rootVars, timeVars, moreVars>>
vars == <<identVars, fetchVars, courseVars, restVars>>

-----------------------------------------------------------------------------
(* git_identifer: strings are sequences of Unicode code points.            *)

MaxLen == 2

\* '-' '0' 'A' 'B' 'x' and U+2192, one of each kind the function tells apart
Alphabet == {45, 48, 65, 66, 120, 8594}

Strings == UNION {[1..n -> Alphabet] : n \in 0..MaxLen}

NoIdent == <<-1>>

IsLower(c) == c \in 97..122
IsDigit(c) == c \in 48..57

\* the dict of line 192: ':' '.' '/' '-' '_' to '-m' '-p' '-s' '-d' '-r'
ShortToken(c) ==
    CASE c = 58 -> <<45, 109>>
      [] c = 46 -> <<45, 112>>
      [] c = 47 -> <<45, 115>>
      [] c = 45 -> <<45, 100>>
      [] c = 95 -> <<45, 114>>
      [] OTHER  -> <<>>

\* The strings of lines 197, 199 and 201 are plain literals, not f-strings:
\* '-c{num:02x}', '-u{num:04x}', '-v{num:016x}' are returned as written.
\* ord(char) <= 0x10FFFF < 2**32, so the raise of line 202 is never reached.
replacement(c) ==
    IF ShortToken(c) # <<>> THEN ShortToken(c)
    ELSE IF c < 2^8 THEN <<45, 99, 123, 110, 117, 109, 58, 48, 50, 120, 125>>
    ELSE IF c < 2^16 THEN <<45, 117, 123, 110, 117, 109, 58, 48, 52, 120, 125>>
    ELSE <<45, 118, 123, 110, 117, 109, 58, 48, 49, 54, 120, 125>>

\* re.sub('[^a-z0-9]', replacement, string)
RECURSIVE resub(_)
resub(s) ==
    IF s = <<>> THEN <<>>
    ELSE (IF IsLower(Head(s)) \/ IsDigit(Head(s))
          THEN <<Head(s)>> ELSE replacement(Head(s))) \o resub(Tail(s))

git_identifer(s) ==
    LET result == resub(s)
    IN  IF result # <<>> /\ IsLower(Head(result))
        THEN result ELSE <<120>> \o result

\* IDENTIFIER_RE of the test: ^[a-z][a-z0-9-]*$
IDENTIFIER_RE(r) ==
    /\ r # <<>>
    /\ IsLower(r[1])
    /\ \A i \in 1..Len(r) : IsLower(r[i]) \/ IsDigit(r[i]) \/ r[i] = 45

IdentIdle ==
    /\ text1 = <<>> /\ text2 = <<>>
    /\ ident1 = NoIdent /\ ident2 = NoIdent

IdentInit ==
    /\ text1 \in Strings /\ text2 \in Strings
    /\ ident1 = NoIdent /\ ident2 = NoIdent

Encode1 ==
    /\ ident1 = NoIdent
    /\ ident1' = git_identifer(text1)
    /\ UNCHANGED <<text1, text2, ident2>>
    /\ UNCHANGED <<fetchVars, courseVars, restVars>>

Encode2 ==
    /\ ident2 = NoIdent
    /\ ident2' = git_identifer(text2)
    /\ UNCHANGED <<text1, text2, ident1>>
    /\ UNCHANGED <<fetchVars, courseVars, restVars>>

-----------------------------------------------------------------------------
(* Fetcher *)

Threads == {1, 2}
Fetchers == {1, 2}
\* '0' and 'x0', the pair of the regression test
Urls == {<<48>>, <<120, 48>>}
Branches == {"main", "dev"}

MaxTime == 11
MaxCalls == 3

CACHE_INTERVAL == 10

NoThread == 0
NoStamp == -1
NoCall == [f |-> 0, url |-> <<>>, branch |-> ""]

Idents == {git_identifer(u) : u \in Urls}

\* get_last_fetch_config_variable: naucse.last_fetch.<git_identifer(url)>.<branch>
get_last_fetch_config_variable(url, branch) == <<git_identifer(url), branch>>

\* IsStale with the comparison of line 167 made inclusive
IsStale_inclusive(url, branch, now) ==
    LET last == last_fetch[get_last_fetch_config_variable(url, branch)]
    IN  IF last = NoStamp THEN TRUE ELSE last + CACHE_INTERVAL <= now

\* the branch test of filter_branches_to_fetch, lines 162-168
IsStale(url, branch, now) ==
    LET last == last_fetch[get_last_fetch_config_variable(url, branch)]
    IN  IF last = NoStamp THEN TRUE ELSE last + CACHE_INTERVAL < now

\* filter_branches_to_fetch without line 155, `branches - fetched_branches`
filter_branches_to_fetch_refetch(f, url, branches, now) ==
    {b \in branches : IsStale(url, b, now)}

filter_branches_to_fetch(f, url, branches, now) ==
    {b \in branches \ fetched_branches[f][url] : IsStale(url, b, now)}

\* a lock taken with acquire() and released only on the normal path
LockAfterRaise_held(t) == t

\* `with main_lock:` releases the lock when the body raises
LockAfterRaise(t) == NoThread

\* the early return without line 133
FetchedAfterEarlyReturn_unrecorded(f, url, branch) == fetched_branches

\* line 133: the early return records the requested branch as fetched
FetchedAfterEarlyReturn(f, url, branch) ==
    [fetched_branches EXCEPT ![f][url] = @ \cup {branch}]

\* update_fetched_branches: `git config var now.isoformat()` for each of `written`
update_fetched_branches(url, written, now) ==
    [k \in DOMAIN last_fetch |->
        IF \E b \in written : k = get_last_fetch_config_variable(url, b)
        THEN now ELSE last_fetch[k]]

FetchIdle ==
    /\ clock = 0
    /\ main_lock = NoThread
    /\ pc = [t \in Threads |-> "idle"]
    /\ call = [t \in Threads |-> NoCall]
    /\ to_fetch = [t \in Threads |-> {}]
    /\ fnow = [t \in Threads |-> 0]
    /\ regRef = [t \in Threads |-> "none"]
    /\ registered_branches = [f \in Fetchers |-> [u \in Urls |-> {}]]
    /\ fetched_branches = [f \in Fetchers |-> [u \in Urls |-> {}]]
    /\ last_fetch = [k \in Idents \X Branches |-> NoStamp]
    /\ returned = [c \in Fetchers \X Urls \X Branches |-> 0]
    /\ ncalls = 0

\* time passes, five or six minutes at a time
Tick ==
    \E step \in {5, 6} :
        /\ clock + step <= MaxTime
        /\ clock' = clock + step
        /\ UNCHANGED <<main_lock, pc, call, to_fetch, fnow, regRef,
                       registered_branches, fetched_branches, last_fetch, returned, ncalls>>
        /\ UNCHANGED <<identVars, courseVars, restVars>>

\* a thread calls Fetcher.fetch(url, branch)
CallFetch(t, f, url, branch) ==
    /\ pc[t] = "idle"
    /\ ncalls < MaxCalls
    /\ ncalls' = ncalls + 1
    /\ pc' = [pc EXCEPT ![t] = "acquire"]
    /\ call' = [call EXCEPT ![t] = [f |-> f, url |-> url, branch |-> branch]]
    /\ UNCHANGED <<clock, main_lock, to_fetch, fnow, regRef,
                   registered_branches, fetched_branches, last_fetch, returned>>
    /\ UNCHANGED <<identVars, courseVars, restVars>>

\* line 127: with main_lock
Acquire(t) ==
    /\ pc[t] = "acquire"
    /\ main_lock = NoThread
    /\ main_lock' = t
    /\ pc' = [pc EXCEPT ![t] = "body"]
    /\ UNCHANGED <<clock, call, to_fetch, fnow, regRef,
                   registered_branches, fetched_branches, last_fetch, returned, ncalls>>
    /\ UNCHANGED <<identVars, courseVars, restVars>>

\* lines 128-134: register_branch, pop, now, filter_branches_to_fetch and the
\* early return.  The popped set leaves the dict: a register_branch that holds
\* it from setdefault now holds a set no one will read.
FetchBody(t) ==
    /\ pc[t] = "body"
    /\ LET f == call[t].f
           url == call[t].url
           branch == call[t].branch
           popped == registered_branches[f][url] \cup {branch}
           filtered == filter_branches_to_fetch(f, url, popped, clock)
       IN  /\ registered_branches' = [registered_branches EXCEPT ![f][url] = {}]
           /\ regRef' = [s \in Threads |->
                           IF pc[s] = "regadd" /\ call[s].f = f /\ call[s].url = url
                           THEN "detached" ELSE regRef[s]]
           /\ fnow' = [fnow EXCEPT ![t] = clock]
           /\ IF branch \notin filtered
              THEN /\ fetched_branches' = FetchedAfterEarlyReturn(f, url, branch)
                   /\ main_lock' = NoThread
                   /\ pc' = [pc EXCEPT ![t] = "idle"]
                   /\ call' = [call EXCEPT ![t] = NoCall]
                   /\ to_fetch' = to_fetch
                   /\ returned' = [returned EXCEPT ![<<f, url, branch>>] = @ + 1]
              ELSE /\ to_fetch' = [to_fetch EXCEPT ![t] = filtered]
                   /\ pc' = [pc EXCEPT ![t] = "git"]
                   /\ UNCHANGED <<fetched_branches, main_lock, call, returned>>
    /\ UNCHANGED <<clock, last_fetch, ncalls>>
    /\ UNCHANGED <<identVars, courseVars, restVars>>

\* lines 137-147: git remote add, git fetch, the bookkeeping, and the return
GitFetchDone(t) ==
    /\ pc[t] = "git"
    /\ fetched_branches' = [fetched_branches EXCEPT
                               ![call[t].f][call[t].url] = @ \cup to_fetch[t]]
    /\ last_fetch' = update_fetched_branches(call[t].url, to_fetch[t], fnow[t])
    /\ returned' = [returned EXCEPT
                        ![<<call[t].f, call[t].url, call[t].branch>>] = @ + 1]
    /\ main_lock' = NoThread
    /\ pc' = [pc EXCEPT ![t] = "idle"]
    /\ call' = [call EXCEPT ![t] = NoCall]
    /\ to_fetch' = [to_fetch EXCEPT ![t] = {}]
    /\ UNCHANGED <<clock, fnow, regRef, registered_branches, ncalls>>
    /\ UNCHANGED <<identVars, courseVars, restVars>>

\* line 141: `git fetch` exits non-zero and run() raises CalledProcessError
GitFetchFails(t) ==
    /\ pc[t] = "git"
    /\ UNCHANGED returned
    /\ main_lock' = LockAfterRaise(t)
    /\ pc' = [pc EXCEPT ![t] = "idle"]
    /\ call' = [call EXCEPT ![t] = NoCall]
    /\ to_fetch' = [to_fetch EXCEPT ![t] = {}]
    /\ UNCHANGED <<clock, fnow, regRef, registered_branches, fetched_branches,
                   last_fetch, ncalls>>
    /\ UNCHANGED <<identVars, courseVars, restVars>>

\* line 179: a `git config` write of update_fetched_branches exits non-zero
\* after the branches of `written` were written
ConfigWriteFails(t, written) ==
    /\ pc[t] = "git"
    /\ written \subseteq to_fetch[t] /\ written # to_fetch[t]
    /\ fetched_branches' = [fetched_branches EXCEPT
                               ![call[t].f][call[t].url] = @ \cup to_fetch[t]]
    /\ last_fetch' = update_fetched_branches(call[t].url, written, fnow[t])
    /\ UNCHANGED returned
    /\ main_lock' = LockAfterRaise(t)
    /\ pc' = [pc EXCEPT ![t] = "idle"]
    /\ call' = [call EXCEPT ![t] = NoCall]
    /\ to_fetch' = [to_fetch EXCEPT ![t] = {}]
    /\ UNCHANGED <<clock, fnow, regRef, registered_branches, ncalls>>
    /\ UNCHANGED <<identVars, courseVars, restVars>>

\* register_branch called directly (CompiledRenderer.__init__), line 115:
\* self.registered_branches.setdefault(url, set())
RegisterSetdefault(t, f, url, branch) ==
    /\ pc[t] = "idle"
    /\ ncalls < MaxCalls
    /\ ncalls' = ncalls + 1
    /\ pc' = [pc EXCEPT ![t] = "regadd"]
    /\ call' = [call EXCEPT ![t] = [f |-> f, url |-> url, branch |-> branch]]
    /\ regRef' = [regRef EXCEPT ![t] = "live"]
    /\ UNCHANGED <<clock, main_lock, to_fetch, fnow,
                   registered_branches, fetched_branches, last_fetch, returned>>
    /\ UNCHANGED <<identVars, courseVars, restVars>>

\* line 115, second half: .add(branch) on the set setdefault returned
RegisterAdd(t) ==
    /\ pc[t] = "regadd"
    /\ registered_branches' =
           IF regRef[t] = "live"
           THEN [registered_branches EXCEPT
                    ![call[t].f][call[t].url] = @ \cup {call[t].branch}]
           ELSE registered_branches
    /\ regRef' = [regRef EXCEPT ![t] = "none"]
    /\ pc' = [pc EXCEPT ![t] = "idle"]
    /\ call' = [call EXCEPT ![t] = NoCall]
    /\ UNCHANGED <<clock, main_lock, to_fetch, fnow,
                   fetched_branches, last_fetch, returned, ncalls>>
    /\ UNCHANGED <<identVars, courseVars, restVars>>

\* what thread t may do next
ThreadStep(t) ==
    \/ \E f \in Fetchers, url \in Urls, branch \in Branches :
           CallFetch(t, f, url, branch)
    \/ Acquire(t)
    \/ FetchBody(t)
    \/ GitFetchDone(t)
    \/ GitFetchFails(t)
    \/ \E written \in SUBSET Branches : ConfigWriteFails(t, written)
    \/ \E f \in Fetchers, url \in Urls, branch \in Branches :
           RegisterSetdefault(t, f, url, branch)
    \/ RegisterAdd(t)

\* one thread, and time passing between its steps
FetchNext == Tick \/ ThreadStep(1)

\* all threads, at one instant
FetchConcNext == \E t \in Threads : ThreadStep(t)

-----------------------------------------------------------------------------------------------------------------------------------------------------
(* Course: lazy lesson resolution and freeze.                             *)
(* A lesson has one page, 'index', and at most one static file, whose file *)
(* is there or missing.  Its page content is inline text (converted when   *)
(* the lesson is loaded) or a path (read from the renderer and converted   *)
(* on first use).  The page has at most one Solution, whose content is a   *)
(* path: "path" until it is read, "read" once it is converted and cached;  *)
(* sollinks are the lessons the solution's file links to.  The lessons     *)
(* drawn with a solution have a page without links and no static file.     *)

NSlugs == 2
Slugs == 1..NSlugs

LinkDepth == 50

NoLesson == [content |-> "none"]

\* LocalRenderer and ArcaRenderer ("local"), CompiledRenderer ("compiled")
Renderers == {"local", "compiled"}

\* a lesson's static_files: empty, or one entry whose file exists or not
StaticFiles == {"none", "file", "missing"}

\* the lesson links a page's content may hold: none or one
LinkSets == {{}} \cup {{s} : s \in Slugs}

\* what load() can make of one rendered lesson
LoadedLessons ==
    {[content |-> "inline", ready |-> TRUE, links |-> L, static |-> st,
      solution |-> "none", sollinks |-> {}] :
        L \in LinkSets, st \in StaticFiles}
    \cup
    {[content |-> "path", ready |-> FALSE, links |-> {}, static |-> st,
      solution |-> "none", sollinks |-> {}] : st \in StaticFiles}
    \cup
    {[content |-> "inline", ready |-> TRUE, links |-> {}, static |-> "none",
      solution |-> "path", sollinks |-> L] : L \in LinkSets}

Missing == [content |-> "missing"]

Resolved == {s \in Slugs : lessons[s] # NoLesson}

NoOp == [name |-> "none", arg |-> 0]

\* no operation has ended since the current one began
NoRet == [op |-> "none", arg |-> 0, res |-> "ok"]

CourseIdle ==
    /\ cpc = "new"
    /\ renderer = "none"
    /\ op = NoOp
    /\ lessons = [s \in Slugs |-> NoLesson]
    /\ order = <<>>
    /\ requested = {}
    /\ frozen = FALSE /\ freezing = FALSE
    /\ materials = {}
    /\ link_depth = 0
    /\ walk = <<>>
    /\ slugs = {}
    /\ new_lessons = <<>>
    /\ ret = NoRet
    /\ rcalls = <<>>
    /\ inserted = {}
    /\ entry = [frozen |-> FALSE, freezing |-> FALSE]

\* CourseHTMLFragment.freeze on a page of a lesson that is in _lessons:
\* the outcomes [lesson, add, ok], `add` being the slugs convert() hands to
\* get_lesson_url.  A fragment with _content set returns it; one with a path
\* asks renderer.get_path_or_file, which raises or gives the text to convert.
ContentFreeze(lesson) ==
    IF lesson.ready
    THEN {[lesson |-> lesson, add |-> {}, ok |-> TRUE]}
    ELSE {[lesson |-> lesson, add |-> {}, ok |-> FALSE]}
         \cup {[lesson |-> [lesson EXCEPT !.ready = TRUE, !.links = L],
                add |-> L, ok |-> TRUE] : L \in LinkSets}

\* Page.freeze: the page's content is frozen
PageFreeze(lesson) == ContentFreeze(lesson)

\* renderer.get_path_or_file(path) for a static file: LocalRenderer and
\* ArcaRenderer return safe_join(...), a path, whether the file exists or not;
\* CompiledRenderer opens the file, which raises when it is missing
get_path_or_file(static) == ~(renderer = "compiled" /\ static = "missing")

\* the static-file loop of Lesson.freeze: static_file.get_path_or_file()
StaticFreeze(o) ==
    IF o.ok /\ o.lesson.static # "none"
    THEN {[lesson |-> o.lesson, add |-> o.add,
           ok |-> get_path_or_file(o.lesson.static)]}
    ELSE {o}

\* Lesson.freeze: the pages, then the static files
LessonFreeze(lesson) == UNION {StaticFreeze(o) : o \in PageFreeze(lesson)}

\* get_lesson_url for each slug of `add`, on a course that is not frozen:
\* a slug that is not in _lessons joins _requested_lessons
Request(req, add, known) == req \cup (add \ known)

\* _sessions_after_load, lines 755-758: every material's lesson_slug is requested
sessions_after_load(M) == requested \cup M

\* get_lesson_url without the test of line 835
get_lesson_url_always(slug) == requested \cup {slug}

\* get_lesson_url, lines 835-838, on a course that is not frozen
get_lesson_url(slug) ==
    IF slug \notin Resolved THEN requested \cup {slug} ELSE requested

\* an operation begins: what the course looked like
Begin ==
    /\ inserted' = {}
    /\ entry' = [frozen |-> frozen, freezing |-> freezing]

\* the operation o ends, returning ("ok") or raising
End(o, res) ==
    /\ cpc' = "done"
    /\ ret' = [op |-> o.name, arg |-> o.arg, res |-> res]
    /\ op' = NoOp
    /\ walk' = <<>>
    /\ slugs' = {}
    /\ new_lessons' = <<>>

\* Course.from_renderer: the course is loaded from the renderer's data; M are
\* the lesson slugs of its sessions' materials
LoadCourse(M, r) ==
    /\ cpc = "new"
    /\ renderer' = r
    /\ Begin
    /\ requested' = sessions_after_load(M)
    /\ materials' = M
    /\ End([name |-> "load", arg |-> 0], "ok")
    /\ rcalls' = <<>>
    /\ UNCHANGED <<lessons, order, frozen, freezing, link_depth>>
    /\ UNCHANGED <<identVars, fetchVars, restVars>>

\* course.get_lesson_url(slug)
GetLessonUrl(slug) ==
    /\ cpc = "idle"
    /\ Begin
    /\ rcalls' = <<>>
    /\ IF slug \notin Resolved /\ frozen
       THEN /\ End([name |-> "url", arg |-> slug], "KeyError")
            /\ UNCHANGED requested
       ELSE /\ End([name |-> "url", arg |-> slug], "ok")
            /\ requested' = get_lesson_url(slug)
    /\ UNCHANGED <<lessons, order, frozen, freezing, materials, link_depth>>
    /\ UNCHANGED <<identVars, fetchVars, restVars, renderer>>

\* the inline contents of the lessons load() builds are converted at once
InlineLinks(nl) ==
    UNION {nl[s].links : s \in {x \in DOMAIN nl : nl[x].content = "inline"}}

\* load_lessons asking for everything requested, as load_all_lessons does
NewSlugs_requested(wanted) == (wanted \cup requested) \ Resolved

\* line 847: slugs = set(slugs) - set(self._lessons)
NewSlugs(wanted) == wanted \ Resolved

\* CompiledRenderer.get_lessons returns every lesson of the course, asked for
\* or not, and load() builds them all: `others` are the links their inline
\* contents hold.  The other renderers return the lessons asked for.
OtherLinks == IF renderer = "compiled" THEN LinkSets ELSE {{}}

\* load_lessons without its first two lines
CourseIsFrozen_never == FALSE

\* line 845: if self._frozen
CourseIsFrozen == frozen

\* load_lessons, lines 845-855, called by operation o with `wanted`, the
\* requested set being req and the operation's renderer calls so far `calls`:
\* the frozen check, renderer.get_lessons and load()
load_lessons(o, wanted, req, calls) ==
    IF CourseIsFrozen
    THEN /\ End(o, "Frozen")
         /\ rcalls' = calls
         /\ requested' = req
    ELSE /\ rcalls' = Append(calls, NewSlugs(wanted))
         /\ \/ /\ End(o, "RendererError")
               /\ requested' = req
            \/ /\ End(o, "ValidationError")
               /\ requested' = req
            \/ \E nl \in [NewSlugs(wanted) -> LoadedLessons \cup {Missing}],
                  others \in OtherLinks :
                  /\ new_lessons' = nl
                  /\ slugs' = NewSlugs(wanted)
                  /\ requested' = Request(req, InlineLinks(nl) \cup others, Resolved)
                  /\ cpc' = "batch"
                  /\ op' = o
                  /\ ret' = NoRet
                  /\ UNCHANGED walk

\* course.lessons[slug], _LessonsDict.__getitem__, for a slug in _lessons
GetItemHit(slug) ==
    /\ cpc = "idle"
    /\ slug \in Resolved
    /\ Begin
    /\ End([name |-> "getitem", arg |-> slug], "ok")
    /\ rcalls' = <<>>
    /\ UNCHANGED <<lessons, order, requested, frozen, freezing, materials, link_depth>>
    /\ UNCHANGED <<identVars, fetchVars, restVars, renderer>>

\* course.lessons[slug] for a slug that is not in _lessons: load_lessons([slug])
GetItemMiss(slug) ==
    /\ cpc = "idle"
    /\ slug \notin Resolved
    /\ Begin
    /\ load_lessons([name |-> "getitem", arg |-> slug], {slug}, requested, <<>>)
    /\ UNCHANGED <<lessons, order, frozen, freezing, materials, link_depth>>
    /\ UNCHANGED <<identVars, fetchVars, restVars, renderer>>

\* load_lessons, lines 856-864: one turn of `for slug in slugs`
LoadOne(slug) ==
    /\ cpc = "batch"
    /\ slug \in slugs
    /\ IF new_lessons[slug] = Missing
       THEN /\ End(op, "ValueError")
            /\ UNCHANGED <<lessons, order, requested, inserted>>
       ELSE \E o \in (IF freezing THEN LessonFreeze(new_lessons[slug])
                      ELSE {[lesson |-> new_lessons[slug], add |-> {}, ok |-> TRUE]}) :
               /\ lessons' = [lessons EXCEPT ![slug] = o.lesson]
               /\ order' = Append(order, slug)
               /\ requested' = Request(requested \ {slug}, o.add, Resolved \cup {slug})
               /\ inserted' = inserted \cup {slug}
               /\ IF o.ok
                  THEN /\ slugs' = slugs \ {slug}
                       /\ UNCHANGED <<cpc, op, ret, walk, new_lessons>>
                  ELSE End(op, "FileError")
    /\ UNCHANGED <<frozen, freezing, materials, link_depth, rcalls, entry>>
    /\ UNCHANGED <<identVars, fetchVars, restVars, renderer>>

\* load_lessons returns: to __getitem__, which returns the lesson, or to the
\* loop of load_all_lessons, lines 879-883
LoadReturns ==
    /\ cpc = "batch"
    /\ slugs = {}
    /\ IF op.name \in {"getitem", "load_lessons"}
       THEN /\ End(op, "ok")
            /\ UNCHANGED link_depth
       ELSE /\ link_depth' = link_depth - 1
            /\ IF link_depth' < 0
               THEN End(op, "TooDeep")
               ELSE /\ cpc' = "loop"
                    /\ new_lessons' = <<>>
                    /\ UNCHANGED <<op, ret, walk, slugs>>
    /\ UNCHANGED <<lessons, order, requested, frozen, freezing, materials,
                   rcalls, inserted, entry>>
    /\ UNCHANGED <<identVars, fetchVars, restVars, renderer>>

\* freeze() that forgets to raise the flag
FreezingOnEntry_unset == FALSE

\* line 895: self._freezing = True
FreezingOnEntry == TRUE

\* a guard that forgets the freezing flag
FreezeReturnsAtOnce_frozen == frozen

\* line 893: if self._frozen or self._freezing
FreezeReturnsAtOnce == frozen \/ freezing

\* freeze(), lines 893-896, and the entry of load_all_lessons, 867-870,
\* for the operation `name` that calls it
FreezeBody(name) ==
    /\ cpc = "idle"
    /\ Begin
    /\ rcalls' = <<>>
    /\ IF FreezeReturnsAtOnce
       THEN /\ End([name |-> name, arg |-> 0], "ok")
            /\ UNCHANGED freezing
       ELSE /\ freezing' = FreezingOnEntry
            /\ walk' = IF freezing' THEN order ELSE <<>>
            /\ cpc' = "walk"
            /\ op' = [name |-> name, arg |-> 0]
            /\ ret' = NoRet
            /\ UNCHANGED <<slugs, new_lessons>>
    /\ UNCHANGED <<lessons, order, requested, frozen, materials, link_depth>>
    /\ UNCHANGED <<identVars, fetchVars, restVars, renderer>>

\* course.freeze()
Freeze == FreezeBody("freeze")

\* iter(course.lessons) or len(course.lessons), _LessonsDict lines 633-639:
\* course.freeze(), then the keys of _lessons
Iterate == FreezeBody("iter")

\* course.load_all_lessons() called directly, lines 867-871
LoadAllLessons ==
    /\ cpc = "idle"
    /\ Begin
    /\ rcalls' = <<>>
    /\ IF frozen
       THEN End([name |-> "load_all", arg |-> 0], "ok")
       ELSE /\ walk' = IF freezing THEN order ELSE <<>>
            /\ cpc' = "walk"
            /\ op' = [name |-> "load_all", arg |-> 0]
            /\ ret' = NoRet
            /\ UNCHANGED <<slugs, new_lessons>>
    /\ UNCHANGED <<lessons, order, requested, frozen, freezing, materials,
                   link_depth>>
    /\ UNCHANGED <<identVars, fetchVars, restVars, renderer>>

\* course.load_lessons(wanted) called directly
LoadLessons(wanted) ==
    /\ cpc = "idle"
    /\ Begin
    /\ load_lessons([name |-> "load_lessons", arg |-> 0], wanted, requested, <<>>)
    /\ UNCHANGED <<lessons, order, frozen, freezing, materials, link_depth>>
    /\ UNCHANGED <<identVars, fetchVars, restVars, renderer>>

\* load_all_lessons, lines 870-871: lesson.freeze() for a lesson of _lessons.
\* (Iterating self.lessons enters freeze() again, which returns at once.)
WalkLesson ==
    /\ cpc = "walk"
    /\ walk # <<>>
    /\ \E o \in LessonFreeze(lessons[Head(walk)]) :
          /\ lessons' = [lessons EXCEPT ![Head(walk)] = o.lesson]
          /\ requested' = Request(requested, o.add, Resolved)
          /\ IF o.ok
             THEN /\ walk' = Tail(walk)
                  /\ UNCHANGED <<cpc, op, ret, slugs, new_lessons>>
             ELSE End(op, "FileError")
    /\ UNCHANGED <<order, frozen, freezing, materials, link_depth, rcalls,
                   inserted, entry>>
    /\ UNCHANGED <<identVars, fetchVars, restVars, renderer>>

\* load_all_lessons, lines 872-873
WalkDone ==
    /\ cpc = "walk"
    /\ walk = <<>>
    /\ requested' = requested \ Resolved
    /\ link_depth' = LinkDepth
    /\ cpc' = "loop"
    /\ UNCHANGED <<op, lessons, order, frozen, freezing, materials, walk, slugs,
                   new_lessons, ret, rcalls, inserted, entry>>
    /\ UNCHANGED <<identVars, fetchVars, restVars, renderer>>

\* load_all_lessons, lines 874-878: the loop goes on with a batch
LoopLoads ==
    /\ cpc = "loop"
    /\ requested \ Resolved # {}
    /\ load_lessons(op, requested \ Resolved, requested \ Resolved, rcalls)
    /\ UNCHANGED <<lessons, order, frozen, freezing, materials, link_depth,
                   inserted, entry>>
    /\ UNCHANGED <<identVars, fetchVars, restVars, renderer>>

\* the flag set by a direct freeze() only, not by the one iteration runs
SetsFrozen_direct(name) == name = "freeze"

\* a load_all_lessons that sets the flag whoever called it
SetsFrozen_always(name) == TRUE

\* line 897: self._frozen = True is freeze()'s, reached when its
\* load_all_lessons returned; load_all_lessons called directly sets no flag
SetsFrozen(name) == name # "load_all"

\* load_all_lessons returns (the loop ends); when freeze() called it, freeze
\* sets _frozen, line 897
LoopEnds ==
    /\ cpc = "loop"
    /\ requested \ Resolved = {}
    /\ requested' = IF requested = {} THEN requested ELSE requested \ Resolved
    /\ frozen' = IF SetsFrozen(op.name) THEN TRUE ELSE frozen
    /\ End(op, "ok")
    /\ UNCHANGED <<lessons, order, freezing, materials, link_depth, rcalls,
                   inserted, entry>>
    /\ UNCHANGED <<identVars, fetchVars, restVars, renderer>>

\* the content of a page of lessons[slug] is read (str(page.content))
ReadContent(slug) ==
    /\ cpc = "idle"
    /\ slug \in Resolved
    /\ Begin
    /\ rcalls' = <<>>
    /\ \E o \in ContentFreeze(lessons[slug]) :
          IF o.ok /\ frozen /\ o.add \ Resolved # {}
          THEN /\ End([name |-> "content", arg |-> slug], "KeyError")
               /\ UNCHANGED <<lessons, requested>>
          ELSE /\ lessons' = [lessons EXCEPT ![slug] = o.lesson]
               /\ requested' = Request(requested, o.add, Resolved)
               /\ End([name |-> "content", arg |-> slug],
                      IF o.ok THEN "ok" ELSE "FileError")
    /\ UNCHANGED <<order, frozen, freezing, materials, link_depth>>
    /\ UNCHANGED <<identVars, fetchVars, restVars, renderer>>

\* the content of the solution of lessons[slug]'s page is read: the
\* CourseHTMLFragment.freeze of lines 193-206 on Solution.content.  Page.freeze
\* (lines 403-405) does not reach it, so this is its only materialization.
ReadSolution(slug) ==
    /\ cpc = "idle"
    /\ slug \in Resolved
    /\ lessons[slug].solution # "none"
    /\ Begin
    /\ rcalls' = <<>>
    /\ IF lessons[slug].solution = "read"
       THEN /\ End([name |-> "solution", arg |-> slug], "ok")
            /\ UNCHANGED <<lessons, requested>>
       ELSE \/ /\ End([name |-> "solution", arg |-> slug], "FileError")
               /\ UNCHANGED <<lessons, requested>>
            \/ IF frozen /\ lessons[slug].sollinks \ Resolved # {}
               THEN /\ End([name |-> "solution", arg |-> slug], "KeyError")
                    /\ UNCHANGED <<lessons, requested>>
               ELSE /\ lessons' = [lessons EXCEPT ![slug].solution = "read"]
                    /\ requested' =
                         Request(requested, lessons[slug].sollinks, Resolved)
                    /\ End([name |-> "solution", arg |-> slug], "ok")
    /\ UNCHANGED <<order, frozen, freezing, materials, link_depth>>
    /\ UNCHANGED <<identVars, fetchVars, restVars, renderer>>

\* the caller has the operation's result or exception and goes on
Return ==
    /\ cpc = "done"
    /\ cpc' = "idle"
    /\ ret' = NoRet
    /\ rcalls' = <<>>
    /\ inserted' = {}
    /\ entry' = [frozen |-> FALSE, freezing |-> FALSE]
    /\ UNCHANGED <<op, lessons, order, requested, frozen, freezing, materials,
                   link_depth, walk, slugs, new_lessons>>
    /\ UNCHANGED <<identVars, fetchVars, restVars, renderer>>

CourseNext ==
    \/ \E M \in SUBSET Slugs, r \in Renderers : LoadCourse(M, r)
    \/ \E slug \in Slugs : GetLessonUrl(slug)
    \/ \E slug \in Slugs : GetItemHit(slug)
    \/ \E slug \in Slugs : GetItemMiss(slug)
    \/ \E slug \in Slugs : LoadOne(slug)
    \/ LoadReturns
    \/ Freeze
    \/ Iterate
    \/ LoadAllLessons
    \/ \E wanted \in SUBSET Slugs : LoadLessons(wanted)
    \/ WalkLesson
    \/ WalkDone
    \/ LoopLoads
    \/ LoopEnds
    \/ \E slug \in Slugs : ReadContent(slug)
    \/ \E slug \in Slugs : ReadSolution(slug)
    \/ Return

-----------------------------------------------------------------------------
(* Course.load_all_lessons on reference graphs longer than its link depth.  *)
(* Only the keys of _lessons and the requested set are kept.  The lessons   *)
(* the renderer has are 1..n; their page contents are inline, so that the   *)
(* links of a lesson are requested when it is loaded.  The graph is one of: *)
(* a chain 1 -> 2 -> ... -> n, a chain closed into a cycle, a chain whose   *)
(* last lesson links to a lesson the renderer does not have, a fan (lesson  *)
(* 1 links to all others) or a binary tree.                                 *)

\* the longest chain; longer than the link depth
MaxChain == 53

Kinds == {"chain", "cycle", "dangling", "fan", "tree"}

Shapes == [kind : Kinds, n : 0..MaxChain]

\* the lessons the renderer has
Present(shape) == 1..shape.n

\* the lessons the content of lesson slug links to
Links(shape, slug) ==
    CASE shape.kind = "chain" -> IF slug < shape.n THEN {slug + 1} ELSE {}
      [] shape.kind = "cycle" -> IF slug < shape.n THEN {slug + 1} ELSE {1}
      [] shape.kind = "dangling" -> {slug + 1}
      [] shape.kind = "fan" -> IF slug = 1 THEN 2..shape.n ELSE {}
      [] shape.kind = "tree" -> {2 * slug, 2 * slug + 1} \cap Present(shape)

\* the lesson slugs of the sessions' materials: the first lesson
Materials(shape) ==
    IF shape.n = 0 /\ shape.kind # "dangling" THEN {} ELSE {1}

\* a loop that never gives up
LinkedTooDeeply_never(depth) == FALSE

\* a loop that gives up ten batches early
LinkedTooDeeply_early(depth) == depth < 10

\* line 880: if link_depth < 0
LinkedTooDeeply(depth) == depth < 0

DeepIdle ==
    /\ d_pc = "none"
    /\ d_shape = [kind |-> "chain", n |-> 0]
    /\ d_lessons = {}
    /\ d_requested = {}
    /\ d_link_depth = LinkDepth
    /\ d_batch = {}
    /\ d_nbatches = 0
    /\ d_res = "none"

\* a course just loaded (Course.__init__ and _sessions_after_load), on which
\* load_all_lessons is called
DeepInit ==
    /\ d_pc = "called"
    /\ d_shape \in Shapes
    /\ d_lessons = {}
    /\ d_requested = Materials(d_shape)
    /\ d_link_depth = LinkDepth
    /\ d_batch = {}
    /\ d_nbatches = 0
    /\ d_res = "none"

\* load_all_lessons, lines 867-873, on a course neither frozen nor freezing
DeepStart ==
    /\ d_pc = "called"
    /\ d_requested' = d_requested \ d_lessons
    /\ d_link_depth' = LinkDepth
    /\ d_pc' = "loop"
    /\ UNCHANGED <<d_shape, d_lessons, d_batch, d_nbatches, d_res>>
    /\ UNCHANGED <<identVars, fetchVars, courseVars, rootVars, timeVars, moreVars>>

\* one turn of the loop, lines 874-883, with the load_lessons of lines 844-864:
\* the renderer is asked for the batch; the loaded lessons' links are
\* requested (get_lesson_url, lines 835-838); the batch's lessons are inserted
\* and discarded from the requested set, up to a slug the renderer did not
\* return (lines 857-861); link_depth is counted down and tested.  The
\* renderer's answer may also fail to load (line 851).
DeepBatch ==
    /\ d_pc = "loop"
    /\ d_requested \ d_lessons # {}
    /\ LET batch == (d_requested \ d_lessons) \ d_lessons
           got == batch \cap Present(d_shape)
           added == UNION {Links(d_shape, s) : s \in got} \ d_lessons
       IN /\ d_batch' = batch
          /\ d_nbatches' = d_nbatches + 1
          /\ \/ /\ d_pc' = "done"
                /\ d_res' = "ValidationError"
                /\ d_requested' = d_requested \ d_lessons
                /\ UNCHANGED <<d_lessons, d_link_depth>>
             \/ IF got # batch
                THEN /\ \E ins \in SUBSET got :
                          /\ d_lessons' = d_lessons \cup ins
                          /\ d_requested' =
                               ((d_requested \ d_lessons) \cup added) \ ins
                     /\ d_pc' = "done"
                     /\ d_res' = "Missing"
                     /\ UNCHANGED d_link_depth
                ELSE /\ d_lessons' = d_lessons \cup batch
                     /\ d_requested' =
                          ((d_requested \ d_lessons) \cup added) \ batch
                     /\ d_link_depth' = d_link_depth - 1
                     /\ IF LinkedTooDeeply(d_link_depth')
                        THEN d_pc' = "done" /\ d_res' = "TooDeep"
                        ELSE UNCHANGED <<d_pc, d_res>>
    /\ UNCHANGED d_shape
    /\ UNCHANGED <<identVars, fetchVars, courseVars, rootVars, timeVars, moreVars>>

\* the loop ends, lines 874-877: nothing requested is unresolved
DeepEnd ==
    /\ d_pc = "loop"
    /\ d_requested \ d_lessons = {}
    /\ d_requested' = IF d_requested = {} THEN {} ELSE d_requested \ d_lessons
    /\ d_pc' = "done"
    /\ d_res' = "ok"
    /\ UNCHANGED <<d_shape, d_lessons, d_link_depth, d_batch, d_nbatches>>
    /\ UNCHANGED <<identVars, fetchVars, courseVars, rootVars, timeVars, moreVars>>

DeepNext == DeepStart \/ DeepBatch \/ DeepEnd

-----------------------------------------------------------------------------
(* Root: courses are loaded from a renderer and added.  A course is kept   *)
(* by its object identity (obj, numbered as loaded), its start_date and    *)
(* end_date (a year, or 0 for None), its derives and its base_course (the  *)
(* base's obj, or 0 for None).                                             *)

\* the years courses run in
NYears == 2

\* the courses loaded, at most
MaxLoads == 3

Years == 1..NYears

CourseSlugs == {"courses/base", "2019/run"}

Derives == {"none", "base", "nonexisting"}

\* what renderer.get_course() returns: data that fails the schema, data with
\* two sessions of one slug, or a course
CourseData ==
    [kind : {"invalid", "duplicate", "valid"}, start : 0..NYears,
     end : 0..NYears, derives : Derives]

NoCourse == [obj |-> 0, start |-> 0, end |-> 0, derives |-> "none", base |-> 0]

NoRunYear == [made |-> FALSE, runs |-> [s \in CourseSlugs |-> 0]]

RootIdle ==
    /\ courses = [s \in CourseSlugs |-> NoCourse]
    /\ run_years = [y \in Years |-> NoRunYear]
    /\ self_study_courses = [s \in CourseSlugs |-> 0]
    /\ nloads = 0
    /\ r_ret = [res |-> "none", obj |-> 0]

\* load(cls, data, ...), line 800: the schema check comes first, the sessions'
\* keys are checked as the sessions are loaded
LoadFails(data) ==
    CASE data.kind = "invalid" -> "ValidationError"
      [] data.kind = "duplicate" -> "DuplicateKeyError"
      [] OTHER -> "ok"

\* _set_base_course, lines 810-817: self.root.courses[f'courses/{derives}']
base_course(derives) ==
    IF derives = "base" THEN courses["courses/base"].obj ELSE 0

\* range(start_date.year, end_date.year+1)
YearRange(course) == {y \in Years : course.start <= y /\ y <= course.end}

\* a replacement that leaves the old course in its run years
OldYears_kept(old) == {}

\* lines 1110-1112: the years the replaced course is deleted from
OldYears(old) == IF old.start = 0 THEN {} ELSE YearRange(old)

\* add_course, lines 1105-1124.  An end_date of None under a start_date
\* raises AttributeError (None.year); a deleted key that is not there raises
\* KeyError.  The result is the Root's three maps and how the call ended.
add_course(slug, course) ==
    LET old == courses[slug]
        replaces == old.obj # 0
        gone == IF ~replaces THEN {} ELSE OldYears(old)
        lacking == {y \in gone : ~run_years[y].made \/ run_years[y].runs[slug] = 0}
        deleted == {y \in gone : \A z \in lacking : y < z}
        ry1 == [y \in Years |->
                  IF y \in deleted
                  THEN [run_years[y] EXCEPT !.runs[slug] = 0]
                  ELSE run_years[y]]
        ss1 == IF replaces /\ old.start = 0
               THEN [self_study_courses EXCEPT ![slug] = 0]
               ELSE self_study_courses
        cs2 == [courses EXCEPT ![slug] = course]
    IN IF replaces /\ old.start # 0 /\ old.end = 0
       THEN [courses |-> courses, run_years |-> run_years,
             self_study_courses |-> self_study_courses, res |-> "AttributeError"]
       ELSE IF lacking # {} \/ (replaces /\ old.start = 0 /\ self_study_courses[slug] = 0)
       THEN [courses |-> courses, run_years |-> ry1,
             self_study_courses |-> self_study_courses, res |-> "KeyError"]
       ELSE IF course.start # 0 /\ course.end = 0
       THEN [courses |-> cs2, run_years |-> ry1,
             self_study_courses |-> ss1, res |-> "AttributeError"]
       ELSE IF course.start # 0
       THEN [courses |-> cs2,
             run_years |-> [y \in Years |->
                              IF y \in YearRange(course)
                              THEN [made |-> TRUE,
                                    runs |-> [ry1[y].runs EXCEPT ![slug] = course.obj]]
                              ELSE ry1[y]],
             self_study_courses |-> ss1, res |-> "ok"]
       ELSE [courses |-> cs2, run_years |-> ry1,
             self_study_courses |-> [ss1 EXCEPT ![slug] = course.obj],
             res |-> "ok"]

\* a loader that adds the course it could not load
RootAfterFailedLoad_added(slug, data) ==
    add_course(slug, [obj |-> nloads + 1, start |-> data.start,
                      end |-> data.end, derives |-> data.derives, base |-> 0])

\* lines 1068-1069: from_renderer raised, add_course is not reached
RootAfterFailedLoad(slug, data) ==
    [courses |-> courses, run_years |-> run_years,
     self_study_courses |-> self_study_courses]

\* _load_local_course, lines 1061-1069: Course.from_renderer (lines 793-804),
\* then add_course
LoadLocalCourse(slug, data) ==
    /\ nloads < MaxLoads
    /\ nloads' = nloads + 1
    /\ IF LoadFails(data) # "ok"
       THEN LET root == RootAfterFailedLoad(slug, data)
            IN /\ r_ret' = [res |-> LoadFails(data), obj |-> 0]
               /\ courses' = root.courses
               /\ run_years' = root.run_years
               /\ self_study_courses' = root.self_study_courses
       ELSE LET course == [obj |-> nloads + 1, start |-> data.start,
                           end |-> data.end, derives |-> data.derives,
                           base |-> base_course(data.derives)]
                added == add_course(slug, course)
            IN /\ courses' = added.courses
               /\ run_years' = added.run_years
               /\ self_study_courses' = added.self_study_courses
               /\ r_ret' = [res |-> added.res, obj |-> course.obj]
    /\ UNCHANGED <<identVars, fetchVars, courseVars, deepVars, timeVars, moreVars>>

RootNext == \E slug \in CourseSlugs, data \in CourseData : LoadLocalCourse(slug, data)

-----------------------------------------------------------------------------
(* fix_session_time.  A datetime.date is a day number, a time of day an    *)
(* hour, a timezone its key; datetime.time and datetime.datetime values    *)
(* are records of these.  The times of session_time are at 18 and 19, the  *)
(* course's default times at 8 and 9.                                      *)

Tzs == {"Europe/Prague", "Pacific/Easter"}

NoTz == "None"

Dates == {24, 28}

NoDate == 0

\* session_time.get(kind, None) when there is no such time
NoTime == [type |-> "None", date |-> NoDate, clock |-> 0, tz |-> NoTz]

Kind == {"start", "end"}

SessionClock(kind) == IF kind = "start" THEN 18 ELSE 19

DefaultClock(kind) == IF kind = "start" THEN 8 ELSE 9

\* what SessionTimeConverter.load (lines 55-63) gives for one endpoint: a
\* datetime or a time, with or without a timezone
SessionTimes(kind) ==
    [type : {"datetime"}, date : Dates, clock : {SessionClock(kind)},
     tz : Tzs \cup {NoTz}]
    \cup
    [type : {"time"}, date : {NoDate}, clock : {SessionClock(kind)},
     tz : Tzs \cup {NoTz}]

\* time_from_string (lines 39-41) for one endpoint of default_time
DefaultTimes(kind) ==
    [type : {"time"}, date : {NoDate}, clock : {DefaultClock(kind)},
     tz : Tzs \cup {NoTz}]

\* Session.time: None, or a dict with start and end
SessionTimeArgs ==
    {[given |-> FALSE, start |-> NoTime, end |-> NoTime]}
    \cup
    [given : {TRUE}, start : SessionTimes("start"), end : SessionTimes("end")]

\* Course.default_time: None, or a dict with start and end
DefaultTimeArgs ==
    {[given |-> FALSE, start |-> NoTime, end |-> NoTime]}
    \cup
    [given : {TRUE}, start : DefaultTimes("start"), end : DefaultTimes("end")]

SessionNames == {"intro", "outro"}

NoResult == [out |-> "none", start |-> NoTime, end |-> NoTime,
             kind |-> "none", name |-> "none"]

\* datetime.datetime.combine(date, time): the time's tzinfo is kept
combine(date, time) ==
    [type |-> "datetime", date |-> date, clock |-> time.clock, tz |-> time.tz]

\* a function that attaches the course's timezone to every time
replace_tzinfo_always(time, tz) == [time EXCEPT !.tz = tz]

\* lines 201-207, when default_timezone is there: time.replace(tzinfo=...) for
\* a time without tzinfo
replace_tzinfo(time, tz) ==
    IF time.tz = NoTz THEN [time EXCEPT !.tz = tz] ELSE time

\* a function that goes on with a time that has no date
NoDateReturnsNone_never == FALSE

\* lines 184-185 and 191-192: return None
NoDateReturnsNone == TRUE

\* a function that lets a time without timezone through
NoTimezoneRaises_never == FALSE

\* lines 202-206: raise ValueError
NoTimezoneRaises == TRUE

\* one turn of `for kind in 'start', 'end'`, lines 175-208: the endpoint's
\* datetime, or the return or raise that ends the function
fix_endpoint(kind, st, sd, dt, dtz, name) ==
    LET time == IF st.given THEN st[kind] ELSE NoTime
        dated ==
            CASE time.type = "datetime" -> [ok |-> TRUE, time |-> time]
              [] time.type = "time" ->
                    IF sd # NoDate
                    THEN [ok |-> TRUE, time |-> combine(sd, time)]
                    ELSE [ok |-> ~NoDateReturnsNone, time |-> time]
              [] OTHER ->
                    IF sd # NoDate /\ dt.given
                    THEN [ok |-> TRUE, time |-> combine(sd, dt[kind])]
                    ELSE [ok |-> ~NoDateReturnsNone, time |-> time]
    IN IF ~dated.ok
       THEN [out |-> "None", time |-> NoTime]
       ELSE IF dated.time.tz = NoTz /\ dtz = NoTz /\ NoTimezoneRaises
       THEN [out |-> "ValueError", time |-> NoTime]
       ELSE [out |-> "time", time |-> replace_tzinfo(dated.time, dtz)]

\* fix_session_time, lines 152-209.  The result is the dict (out = "dict"),
\* None, or the ValueError with the endpoint and the session its message
\* names.  The dicts given as session_time have start and end (line 171).
fix_session_time(st, sd, dt, dtz, name) ==
    LET s == fix_endpoint("start", st, sd, dt, dtz, name)
        e == fix_endpoint("end", st, sd, dt, dtz, name)
    IN CASE s.out = "None" -> [NoResult EXCEPT !.out = "None"]
         [] s.out = "ValueError" ->
               [NoResult EXCEPT !.out = "ValueError", !.kind = "start",
                                !.name = name]
         [] e.out = "None" -> [NoResult EXCEPT !.out = "None"]
         [] e.out = "ValueError" ->
               [NoResult EXCEPT !.out = "ValueError", !.kind = "end",
                                !.name = name]
         [] OTHER -> [out |-> "dict", start |-> s.time, end |-> e.time,
                      kind |-> "none", name |-> "none"]

TimeIdle ==
    /\ t_pc = "none"
    /\ session_time = [given |-> FALSE, start |-> NoTime, end |-> NoTime]
    /\ session_date = NoDate
    /\ default_time = [given |-> FALSE, start |-> NoTime, end |-> NoTime]
    /\ default_timezone = NoTz
    /\ session_name = "intro"
    /\ t_result = NoResult

\* the arguments of Session._fix_time (models.py 600-605)
TimeInit ==
    /\ t_pc = "called"
    /\ session_time \in SessionTimeArgs
    /\ session_date \in Dates \cup {NoDate}
    /\ default_time \in DefaultTimeArgs
    /\ default_timezone \in Tzs \cup {NoTz}
    /\ session_name \in SessionNames
    /\ t_result = NoResult

FixSessionTime ==
    /\ t_pc = "called"
    /\ t_pc' = "done"
    /\ t_result' = fix_session_time(session_time, session_date, default_time,
                                    default_timezone, session_name)
    /\ UNCHANGED <<session_time, session_date, default_time, default_timezone,
                   session_name>>
    /\ UNCHANGED <<identVars, fetchVars, courseVars, deepVars, rootVars, moreVars>>

TimeNext == FixSessionTime

-----------------------------------------------------------------------------
(* One CourseHTMLFragment.  A text is a number; convert (sanitize_html with *)
(* the rewritten URLs) gives another one, and fails on BadText.  The file   *)
(* behind a path may change or go away between reads.                       *)

\* the reads of one fragment, at most
MaxReads == 4

Texts == {1, 2}

\* a text convert() raises on
BadText == 3

NoFile == 0

NoContent == 0

\* convert, lines 173-191
convert(text) == text + 10

\* a fragment that forgets what it read
HasContent_never(content) == FALSE

\* line 194: self._content is not None
HasContent(content) == content # NoContent

FragIdle ==
    /\ fr_path = FALSE
    /\ fr_content = convert(1)
    /\ fr_file = NoFile
    /\ fr_calls = 0
    /\ fr_reads = 0
    /\ fr_first = NoContent
    /\ fr_ret = [res |-> "none", value |-> NoContent]

\* __init__, lines 148-154: inline text is converted at once, a path is kept
FragInit ==
    /\ fr_path \in BOOLEAN
    /\ IF fr_path
       THEN fr_content = NoContent /\ fr_file \in Texts \cup {BadText, NoFile}
       ELSE fr_content \in {convert(text) : text \in Texts} /\ fr_file = NoFile
    /\ fr_calls = 0
    /\ fr_reads = 0
    /\ fr_first = NoContent
    /\ fr_ret = [res |-> "none", value |-> NoContent]

\* content, __str__, __html__ and freeze, lines 163-171 and 193-206: all of
\* them are freeze()
FragRead ==
    /\ fr_reads < MaxReads
    /\ fr_reads' = fr_reads + 1
    /\ IF HasContent(fr_content)
       THEN /\ fr_ret' = [res |-> "ok", value |-> fr_content]
            /\ UNCHANGED <<fr_content, fr_calls>>
       ELSE /\ fr_calls' = fr_calls + 1
            /\ IF fr_file = NoFile
               THEN /\ fr_ret' = [res |-> "FileError", value |-> NoContent]
                    /\ UNCHANGED fr_content
               ELSE IF fr_file = BadText
               THEN /\ fr_ret' = [res |-> "ConvertError", value |-> NoContent]
                    /\ UNCHANGED fr_content
               ELSE /\ fr_content' = convert(fr_file)
                    /\ fr_ret' = [res |-> "ok", value |-> convert(fr_file)]
    /\ fr_first' = IF fr_first = NoContent /\ fr_ret'.res = "ok"
                   THEN fr_ret'.value ELSE fr_first
    /\ UNCHANGED <<fr_path, fr_file>>
    /\ UNCHANGED <<identVars, fetchVars, courseVars, deepVars, rootVars, timeVars, arcaVars>>

\* the repository's file is rewritten or removed
FileChanges(text) ==
    /\ fr_path
    /\ text # fr_file
    /\ fr_file' = text
    /\ UNCHANGED <<fr_path, fr_content, fr_calls, fr_reads, fr_first, fr_ret>>
    /\ UNCHANGED <<identVars, fetchVars, courseVars, deepVars, rootVars, timeVars, arcaVars>>

FragNext == FragRead \/ \E text \in Texts \cup {BadText, NoFile} : FileChanges(text)

-----------------------------------------------------------------------------
(* arca_renderer.Renderer.  Strings are sequences of characters; in the     *)
(* patterns "*" stands for any run of characters and "?" for one, as in     *)
(* fnmatch.                                                                 *)

\* the calls of Arca methods, at most
MaxArcaCalls == 2

RepoUrls == {<<"u">>, <<"v">>}

RepoBranches == {<<"m">>, <<"d">>}

TrustedPatterns ==
    {<<"*">>, <<"u", "#", "m">>, <<"u", "#", "*">>, <<"?", "#", "d">>,
     <<"u">>, <<"v", "*", "d">>}

RECURSIVE fnmatch(_, _)
\* fnmatch.fnmatch(name, pat)
fnmatch(name, pat) ==
    IF pat = <<>> THEN name = <<>>
    ELSE IF Head(pat) = "*"
    THEN \/ fnmatch(name, Tail(pat))
         \/ name # <<>> /\ fnmatch(Tail(name), pat)
    ELSE /\ name # <<>>
         /\ Head(pat) \in {"?", Head(name)}
         /\ fnmatch(Tail(name), Tail(pat))

\* a check that trusts every repository when no pattern is given
IsTrusted_by_default(url, branch, patterns) ==
    \/ patterns = {}
    \/ \E l \in patterns : fnmatch(url \o <<"#">> \o branch, l)

\* lines 35-36: any(fnmatch(checked_url, l) for l in trusted_repo_patterns)
IsTrusted(url, branch, patterns) ==
    \E l \in patterns : fnmatch(url \o <<"#">> \o branch, l)

ArcaIdle ==
    /\ a_pc = "none"
    /\ a_patterns = {}
    /\ a_url = <<"u">>
    /\ a_branch = <<"m">>
    /\ a_calls = 0

\* Renderer(arca, url, branch, trusted_repo_patterns=...) is about to be called
ArcaInit ==
    /\ a_pc = "new"
    /\ a_patterns \in SUBSET TrustedPatterns
    /\ a_url \in RepoUrls
    /\ a_branch \in RepoBranches
    /\ a_calls = 0

\* __init__, lines 30-40: UntrustedRepo, or arca.static_filename
RendererInit ==
    /\ a_pc = "new"
    /\ IF IsTrusted(a_url, a_branch, a_patterns)
       THEN a_pc' = "made" /\ a_calls' = a_calls + 1
       ELSE a_pc' = "refused" /\ UNCHANGED a_calls
    /\ UNCHANGED <<a_patterns, a_url, a_branch>>
    /\ UNCHANGED <<identVars, fetchVars, courseVars, deepVars, rootVars, timeVars, fragVars>>

\* get_course, get_lessons (arca.run) and get_path_or_file on the renderer
\* there is
RendererCall ==
    /\ a_pc = "made"
    /\ a_calls <= MaxArcaCalls
    /\ a_calls' = a_calls + 1
    /\ UNCHANGED <<a_pc, a_patterns, a_url, a_branch>>
    /\ UNCHANGED <<identVars, fetchVars, courseVars, deepVars, rootVars, timeVars, fragVars>>

ArcaNext == RendererInit \/ RendererCall

RestIdle == DeepIdle /\ RootIdle /\ TimeIdle /\ FragIdle /\ ArcaIdle

-----
(* The specifications *)

InitIdent == IdentInit /\ FetchIdle /\ CourseIdle /\ RestIdle

NextIdent == Encode1 \/ Encode2

SpecIdent == InitIdent /\ [][NextIdent]_vars

InitFetch == IdentIdle /\ FetchIdle /\ CourseIdle /\ RestIdle

SpecFetch == InitFetch /\ [][FetchNext]_vars

SpecFetchConc == InitFetch /\ [][FetchConcNext]_vars

InitCourse == IdentIdle /\ FetchIdle /\ CourseIdle /\ RestIdle

SpecCourse == InitCourse /\ [][CourseNext]_vars

InitDeep ==
    /\ IdentIdle /\ FetchIdle /\ CourseIdle /\ DeepInit /\ RootIdle /\ TimeIdle
    /\ FragIdle /\ ArcaIdle

SpecDeep == InitDeep /\ [][DeepNext]_vars

\* load_all_lessons runs on: each renderer call returns
SpecDeepLive == SpecDeep /\ WF_vars(DeepNext)

InitRoot == IdentIdle /\ FetchIdle /\ CourseIdle /\ RestIdle

SpecRoot == InitRoot /\ [][RootNext]_vars

InitTime ==
    /\ IdentIdle /\ FetchIdle /\ CourseIdle /\ DeepIdle /\ RootIdle /\ TimeInit
    /\ FragIdle /\ ArcaIdle

SpecTime == InitTime /\ [][TimeNext]_vars

InitFrag ==
    /\ IdentIdle /\ FetchIdle /\ CourseIdle /\ DeepIdle /\ RootIdle /\ TimeIdle
    /\ FragInit /\ ArcaIdle

SpecFrag == InitFrag /\ [][FragNext]_vars

InitArca ==
    /\ IdentIdle /\ FetchIdle /\ CourseIdle /\ DeepIdle /\ RootIdle /\ TimeIdle
    /\ FragIdle /\ ArcaInit

SpecArca == InitArca /\ [][ArcaNext]_vars

-----------------------------------------------------------------------------
(* git_identifer: injectivity and validity *)

\* C1: git_identifer is injective: two distinct input strings never get the
\* same identifier.
C1_Injective ==
    (ident1 # NoIdent /\ ident2 # NoIdent /\ text1 # text2) => ident1 # ident2

\* C2: for every input string, git_identifer gives a non-empty identifier
\* that starts with a lower-case letter and holds only [a-z0-9-].
C2_Valid == ident1 # NoIdent => IDENTIFIER_RE(ident1)

-----------------------------------------------------------------------------
(* Fetcher.fetch *)

\* the last-fetch timestamp the repository holds for (url, branch)
Stamp(url, branch) == last_fetch[get_last_fetch_config_variable(url, branch)]

\* thread t's fetch leaves lines 128-134, returning early or going on to git
Filtered(t) == pc[t] = "body" /\ pc'[t] # "body"

\* C3: fetch(url, branch) runs a git fetch exactly when this Fetcher has not
\* fetched the branch before and the timestamp recorded for it is absent or
\* more than 10 minutes old: within 10 minutes of a recorded fetch no call
\* runs a git fetch, and a call 11 minutes after it runs one only on a
\* Fetcher that has not fetched the branch.
C3_Ttl ==
    [][\A t \in Threads : Filtered(t) =>
          LET f == call[t].f
              url == call[t].url
              branch == call[t].branch
          IN  IF branch \in fetched_branches[f][url]
              THEN pc'[t] = "idle"
              ELSE IF \/ Stamp(url, branch) = NoStamp
                      \/ clock > Stamp(url, branch) + CACHE_INTERVAL
              THEN pc'[t] = "git" /\ branch \in to_fetch'[t]
              ELSE pc'[t] = "idle"]_vars

\* C3 as stated: a fetch(url, branch) made 11 minutes or more after the
\* recorded fetch always runs a second git fetch.
C3_Original ==
    [][\A t \in Threads :
          (/\ Filtered(t)
           /\ Stamp(call[t].url, call[t].branch) # NoStamp
           /\ clock >= Stamp(call[t].url, call[t].branch) + 11)
          => pc'[t] = "git"]_vars

\* a second git fetch of a branch, more than 10 minutes after the first
C3_Witness ==
    /\ pc[1] = "git"
    /\ call[1].branch \in to_fetch[1]
    /\ Stamp(call[1].url, call[1].branch) # NoStamp
    /\ fnow[1] > Stamp(call[1].url, call[1].branch) + CACHE_INTERVAL

\* C4: once fetch(url, branch) has returned on a Fetcher, no git fetch of
\* that Fetcher for that url includes the branch again.
C4_NoRefetch ==
    \A t \in Threads :
        pc[t] = "git" =>
            \A b \in to_fetch[t] : returned[<<call[t].f, call[t].url, b>>] = 0

\* fetch(url, branch) has returned twice on one Fetcher, the second time more
\* than 10 minutes after the recorded fetch
C4_Witness ==
    \E f \in Fetchers, url \in Urls, branch \in Branches :
        /\ returned[<<f, url, branch>>] = 2
        /\ ncalls = 2
        /\ pc[1] = "idle"
        /\ Stamp(url, branch) # NoStamp
        /\ fnow[1] > Stamp(url, branch) + CACHE_INTERVAL

\* the threads inside the body of fetch
InBody == {t \in Threads : pc[t] \in {"body", "git"}}

\* C5: at most one thread is inside the body of fetch, it is the one holding
\* main_lock, and the lock is free whenever no thread is inside (so it is
\* released when fetch returns and when it raises).
C5_Mutex ==
    /\ Cardinality(InBody) <= 1
    /\ \A t \in Threads : t \in InBody <=> main_lock = t

\* one thread runs git fetch while the other waits for the lock
C5_Witness == pc[1] = "git" /\ main_lock = 1 /\ pc[2] = "acquire"

\* (url, branch) has a timestamp at most 10 minutes old
Fresh(url, branch) ==
    Stamp(url, branch) # NoStamp /\ clock <= Stamp(url, branch) + CACHE_INTERVAL

\* C6: a git fetch run by fetch(url, branch) fetches exactly the branches
\* that are registered for url at that moment (the requested one included),
\* that this Fetcher has not fetched before and that are not fresh.
C6_FetchSet ==
    [][\A t \in Threads : (pc[t] = "body" /\ pc'[t] = "git") =>
          LET f == call[t].f
              url == call[t].url
              branch == call[t].branch
          IN  /\ to_fetch'[t] =
                     {b \in Branches :
                         /\ b = branch \/ b \in registered_branches[f][url]
                         /\ b \notin fetched_branches[f][url]
                         /\ ~Fresh(url, b)}
              /\ branch \in to_fetch'[t]]_vars

\* a git fetch of the requested branch together with another registered one,
\* while a branch is registered for the other url
C6_Witness ==
    /\ pc[1] = "git"
    /\ to_fetch[1] = Branches
    /\ \E url \in Urls \ {call[1].url} : registered_branches[call[1].f][url] # {}

\* C7: registered_branches changes only in a step of the thread that holds
\* main_lock, inside the body of fetch.
C7_LockedRegistration ==
    [][registered_branches' # registered_branches =>
          \E t \in Threads : main_lock = t /\ Filtered(t)]_vars

-----------------------------------------------------------------------------
(* Course *)

\* the last operation was course.lessons[slug] for a slug that was not
\* resolved, on a course that was not frozen
LookupMissed ==
    /\ cpc = "done"
    /\ ret.op = "getitem"
    /\ ~entry.frozen
    /\ ret.res # "ok" \/ inserted # {}

\* C8: lessons[slug] for an unresolved slug of an unfrozen course makes one
\* renderer call, for {slug}.  When it returns, the lesson is stored under
\* slug (and materialized if the course is freezing).  When the renderer
\* raises, the load fails or the result lacks the slug, the error reaches the
\* caller and the map is unchanged; when materializing the new lesson raises,
\* which happens only on a freezing course, the lesson stays stored.
C8_Lookup ==
    LookupMissed =>
        /\ rcalls = <<{ret.arg}>>
        /\ ret.res \in {"ok", "RendererError", "ValidationError", "ValueError",
                        "FileError"}
        /\ ret.res = "ok" =>
              /\ inserted = {ret.arg}
              /\ lessons[ret.arg] # NoLesson
              /\ entry.freezing => lessons[ret.arg].ready
        /\ ret.res \in {"RendererError", "ValidationError", "ValueError"} =>
              inserted = {}
        /\ ret.res = "FileError" => entry.freezing /\ inserted = {ret.arg}

\* C8 as stated: one call for {slug}; then the lesson is stored and returned,
\* or the renderer has raised and the map is unchanged.
C8_Original ==
    LookupMissed =>
        /\ rcalls = <<{ret.arg}>>
        /\ \/ ret.res = "ok" /\ inserted = {ret.arg}
           \/ ret.res = "RendererError" /\ inserted = {}

\* a lookup on a freezing course stored the lesson and then raised
C8_Witness ==
    /\ LookupMissed
    /\ ret.res = "FileError"
    /\ rcalls = <<{ret.arg}>>
    /\ lessons[ret.arg] # NoLesson

\* C9: on an unfrozen course get_lesson_url(slug) returns, calls no renderer,
\* leaves the lessons map alone and adds slug to the requested set exactly
\* when it is not resolved; loading the course adds the materials' lesson
\* slugs to the requested set and resolves nothing.
C9_IntentOnly ==
    [][/\ (cpc = "idle" /\ cpc' = "done" /\ ret'.op = "url" /\ ~frozen) =>
             /\ ret'.res = "ok"
             /\ rcalls' = <<>>
             /\ lessons' = lessons
             /\ requested' = IF ret'.arg \in Resolved
                             THEN requested ELSE requested \cup {ret'.arg}
       /\ (cpc = "new" /\ cpc' = "done") =>
             /\ rcalls' = <<>>
             /\ lessons' = lessons
             /\ requested' = requested \cup materials']_vars

\* get_lesson_url has put a slug no material names into the requested set
C9_Witness ==
    /\ cpc = "done"
    /\ ret.op = "url" /\ ret.res = "ok"
    /\ ~frozen
    /\ ret.arg \notin Resolved
    /\ ret.arg \in requested \ materials
    /\ Resolved # {}

\* C10: after a freeze() that returned without error the course is frozen,
\* every resolved lesson's page content is materialized, and none of its
\* static files (each asked from the renderer by the freeze) is missing.
C10_FreezeComplete ==
    (cpc = "done" /\ ret.op = "freeze" /\ ret.res = "ok"
        /\ ~entry.frozen /\ ~entry.freezing) =>
        /\ frozen
        /\ \A s \in Resolved :
              /\ lessons[s].ready
              /\ lessons[s].static # "missing"

\* C11: a freeze() that raised (a renderer or load error, a missing lesson,
\* a page content or static file that could not be read, lessons linked too
\* deeply) leaves the course freezing and not frozen.
C11_FailedFreeze ==
    (cpc = "done" /\ ret.op = "freeze" /\ ret.res # "ok") =>
        freezing /\ ~frozen

\* freeze() raised because a file could not be read, after loading a lesson
C11_Witness ==
    /\ cpc = "done"
    /\ ret.op = "freeze" /\ ret.res = "FileError"
    /\ inserted # {}
    /\ freezing /\ ~frozen

\* freeze() is called in this step
FreezeCalled ==
    /\ cpc = "idle"
    /\ op'.name = "freeze" \/ (cpc' = "done" /\ ret'.op = "freeze")

\* C12: freeze() on a course that is frozen or freezing returns at once
\* without error, calls no renderer and changes no lesson, no page content,
\* no requested slug and no flag.
C12_Idempotent ==
    [][(FreezeCalled /\ (frozen \/ freezing)) =>
          /\ cpc' = "done"
          /\ ret'.res = "ok"
          /\ rcalls' = <<>>
          /\ UNCHANGED <<lessons, order, requested, frozen, freezing>>]_vars

\* a second freeze() has returned on a frozen course that holds a lesson
C12_Witness ==
    /\ cpc = "done"
    /\ ret.op = "freeze" /\ ret.res = "ok"
    /\ entry.frozen
    /\ Resolved # {}

\* C13: the flags are never taken back and a course is frozen only after it
\* was freezing; no step on a frozen course changes the lessons map, the
\* requested set or a flag (the one thing a frozen course's lesson still takes
\* is the cached text of a solution read for the first time, which is none of
\* the course's operations); every operation called on a frozen course ends at
\* once without a renderer call, and get_lesson_url and lessons[slug] for an
\* unresolved slug, and load_lessons, raise.
C13_FrozenClosed ==
    [][/\ (freezing => freezing') /\ (frozen => frozen')
       /\ frozen' => freezing
       /\ frozen => UNCHANGED <<order, requested, frozen, freezing>>
       /\ frozen => \/ lessons' = lessons
                    \/ cpc' = "done" /\ ret'.op = "solution" /\ Resolved' = Resolved
       /\ (frozen /\ cpc = "idle") =>
             /\ cpc' = "done"
             /\ rcalls' = <<>>
             /\ (ret'.op = "url" /\ ret'.arg \notin Resolved) =>
                   ret'.res = "KeyError"
             /\ (ret'.op = "getitem" /\ ret'.arg \notin Resolved) =>
                   ret'.res = "Frozen"
             /\ ret'.op = "load_lessons" => ret'.res = "Frozen"
             /\ ret'.op \in {"freeze", "iter", "load_all"} => ret'.res = "ok"]_vars

\* lessons[slug] for an unresolved slug has raised on a frozen course
C13_Witness ==
    /\ cpc = "done"
    /\ entry.frozen /\ frozen
    /\ ret.op = "getitem" /\ ret.res = "Frozen"
    /\ ret.arg \notin Resolved
    /\ rcalls = <<>>


\* C14: whenever the course is frozen, no requested slug is unresolved, and
\* every lesson slug referenced by a material, by the page content of a
\* resolved lesson or by the content of a solution of a resolved lesson is a
\* key of the resolved-lessons map.
C14_FrozenComplete ==
    frozen =>
        /\ requested \ Resolved = {}
        /\ materials \subseteq Resolved
        /\ \A s \in Resolved :
              lessons[s].links \cup lessons[s].sollinks \subseteq Resolved

-----------------------------------------------------------------------------
(* load_all_lessons: termination and the link depth *)

\* a renderer call was made in this step
BatchCalled == d_nbatches' # d_nbatches

\* load_all_lessons has ended as the loop alone can end it
DrainedOrTooDeep ==
    \/ d_res = "ok" /\ d_requested = {}
    \/ d_res = "TooDeep"

\* C15: load_all_lessons terminates on every reference graph: it makes at most
\* 51 renderer calls, each for all the requested slugs not yet resolved and
\* none for an empty set, and it ends with the requested set empty, with the
\* 'linked too deeply' error, or with the error of a batch's load_lessons:
\* the renderer's answer did not load, or lacked a requested lesson.
C15_Terminates ==
    /\ [](d_nbatches <= LinkDepth + 1)
    /\ [][BatchCalled => /\ d_nbatches' = d_nbatches + 1
                         /\ d_batch' = d_requested \ d_lessons
                         /\ d_batch' # {}]_vars
    /\ [](d_pc = "done" =>
            \/ DrainedOrTooDeep
            \/ d_res = "ValidationError"
            \/ d_res = "Missing" /\ d_batch \ Present(d_shape) # {})
    /\ <>(d_pc = "done")

\* C15 as stated: the only endings are the empty requested set and the
\* 'linked too deeply' error
C15_Original ==
    /\ [](d_nbatches <= LinkDepth + 1)
    /\ [][BatchCalled => /\ d_nbatches' = d_nbatches + 1
                         /\ d_batch' = d_requested \ d_lessons
                         /\ d_batch' # {}]_vars
    /\ [](d_pc = "done" => DrainedOrTooDeep)
    /\ <>(d_pc = "done")

\* a chain longer than the link depth was given up after 51 renderer calls,
\* with a lesson still requested
C15_Witness ==
    /\ d_pc = "done"
    /\ d_res = "TooDeep"
    /\ d_nbatches = LinkDepth + 1
    /\ d_requested # {}

\* C16: on a chain (the session references lesson 1 and each lesson the next
\* one) whose lessons all load, load_all_lessons fails with 'linked too deeply', after 51 renderer
\* calls, when the chain has more than 50 lessons, and completes, with every
\* lesson resolved by one call each, when it has at most 50.  A chain of 51
\* cross-references (51 or 52 lessons) fails and one of 49 (49 or 50 lessons)
\* completes, whether or not the session's reference is counted.
C16_ChainDepth ==
    (d_pc = "done" /\ d_shape.kind = "chain" /\ d_res # "ValidationError") =>
        /\ d_shape.n > LinkDepth =>
              d_res = "TooDeep" /\ d_nbatches = LinkDepth + 1
        /\ d_shape.n <= LinkDepth =>
              /\ d_res = "ok"
              /\ d_requested = {}
              /\ d_lessons = 1..d_shape.n
              /\ d_nbatches = d_shape.n

\* the chain of 51 lessons was given up
C16_Witness ==
    /\ d_pc = "done"
    /\ d_shape = [kind |-> "chain", n |-> LinkDepth + 1]
    /\ d_res = "TooDeep"

-----------------------------------------------------------------------------
(* Root: loading and adding courses *)

\* C17: a course load that fails with ValidationError or DuplicateKeyError
\* returns no Course object and leaves Root.courses, Root.run_years and
\* Root.self_study_courses as they were.
C17_FailedLoad ==
    [][(nloads' # nloads
        /\ r_ret'.res \in {"ValidationError", "DuplicateKeyError"}) =>
          /\ r_ret'.obj = 0
          /\ UNCHANGED <<courses, run_years, self_study_courses>>]_vars

\* a load failed on two sessions of one slug, on a Root that has a course in
\* a run year and a self-study course
C17_Witness ==
    /\ r_ret.res = "DuplicateKeyError"
    /\ r_ret.obj = 0
    /\ \E y \in Years, s \in CourseSlugs : run_years[y].runs[s] # 0
    /\ \E s \in CourseSlugs : self_study_courses[s] # 0

-----------------------------------------------------------------------------
(* fix_session_time *)

\* session_time.get(kind, None)
Given(kind) == IF session_time.given THEN session_time[kind] ELSE NoTime

\* a datetime with a timezone
Aware(time) == time.type = "datetime" /\ time.tz # NoTz

\* the endpoint cannot be given a date: a bare time without session_date, or
\* no time without session_date or default_time
Undatable(kind) ==
    \/ Given(kind).type = "time" /\ session_date = NoDate
    \/ Given(kind).type = "None" /\ (session_date = NoDate \/ ~default_time.given)

\* where the endpoint's time of day comes from
Source(kind) ==
    IF Given(kind).type = "None" THEN default_time[kind] ELSE Given(kind)

\* the endpoint resolves to a date and time without a timezone
Naive(kind) == ~Undatable(kind) /\ Source(kind).tz = NoTz

\* C18: two timezone-aware datetimes in session_time are returned as they
\* are, whatever the other arguments; in every returned dict an aware datetime
\* of session_time is unchanged, an endpoint with its own timezone keeps it,
\* default_timezone is the timezone of exactly the endpoints that have none
\* after the date/time combination, and the time of day of default_time is
\* used only for the endpoints absent from session_time.
C18_Endpoints ==
    t_pc = "done" =>
        /\ (Aware(Given("start")) /\ Aware(Given("end"))) =>
              /\ t_result.out = "dict"
              /\ t_result.start = session_time.start
              /\ t_result.end = session_time.end
        /\ t_result.out = "dict" =>
              \A kind \in Kind :
                 /\ Aware(Given(kind)) => t_result[kind] = Given(kind)
                 /\ Given(kind).tz # NoTz => t_result[kind].tz = Given(kind).tz
                 /\ t_result[kind].tz =
                       IF Source(kind).tz # NoTz THEN Source(kind).tz
                       ELSE default_timezone
                 /\ t_result[kind].clock =
                       IF Given(kind).type = "None" THEN DefaultClock(kind)
                       ELSE Given(kind).clock

\* an aware start datetime came back unchanged although the session has
\* another date, the course default times and another timezone
C18_Witness ==
    /\ t_pc = "done"
    /\ t_result.out = "dict"
    /\ Aware(Given("start"))
    /\ t_result.start = Given("start")
    /\ session_date \notin {NoDate, Given("start").date}
    /\ default_time.given
    /\ default_timezone \notin {NoTz, Given("start").tz}
    /\ Given("end").tz = NoTz

\* C19: an endpoint that resolves to a date and time without timezone, with
\* default_timezone None, makes fix_session_time raise the error that names
\* the session and the first such endpoint, unless it is the end and the start
\* cannot be given a date: then the result is None.  No returned dict holds a
\* datetime without timezone.
C19_MissingTimezone ==
    t_pc = "done" =>
        /\ (default_timezone = NoTz /\ Naive("start")) =>
              /\ t_result.out = "ValueError"
              /\ t_result.kind = "start"
              /\ t_result.name = session_name
        /\ (default_timezone = NoTz /\ Naive("end") /\ ~Naive("start")
            /\ ~Undatable("start")) =>
              /\ t_result.out = "ValueError"
              /\ t_result.kind = "end"
              /\ t_result.name = session_name
        /\ (default_timezone = NoTz /\ Naive("end") /\ Undatable("start")) =>
              t_result.out = "None"
        /\ t_result.out = "dict" =>
              t_result.start.tz # NoTz /\ t_result.end.tz # NoTz

\* C19 as stated: the error is raised whenever some endpoint resolves to a
\* date and time without timezone and default_timezone is None
C19_Original ==
    t_pc = "done" =>
        /\ (default_timezone = NoTz /\ \E kind \in Kind : Naive(kind)) =>
              /\ t_result.out = "ValueError"
              /\ t_result.kind \in {kind \in Kind : Naive(kind)}
              /\ t_result.name = session_name
        /\ t_result.out = "dict" =>
              t_result.start.tz # NoTz /\ t_result.end.tz # NoTz

\* the error named the end: the start is an aware datetime, the end a time
\* without timezone on a dated session
C19_Witness ==
    /\ t_pc = "done"
    /\ t_result.out = "ValueError"
    /\ t_result.kind = "end"
    /\ t_result.name = session_name
    /\ Aware(Given("start"))
    /\ Given("end").type = "time"
    /\ session_date # NoDate

\* C20: fix_session_time returns None, raising nothing, when the start cannot
\* be given a date, and when the end cannot be given one unless the start
\* resolves to a date and time without timezone and default_timezone is None:
\* then the missing-timezone error of the start is raised.  It returns None
\* in no other case.
C20_NoDate ==
    t_pc = "done" =>
        /\ Undatable("start") => t_result.out = "None"
        /\ (Undatable("end") /\ ~(Naive("start") /\ default_timezone = NoTz)) =>
              t_result.out = "None"
        /\ (Undatable("end") /\ Naive("start") /\ default_timezone = NoTz) =>
              t_result.out = "ValueError" /\ t_result.kind = "start"
        /\ t_result.out = "None" => \E kind \in Kind : Undatable(kind)

\* C20 as stated: None, without raising, whenever some endpoint cannot be
\* given a date
C20_Original ==
    t_pc = "done" =>
        ((\E kind \in Kind : Undatable(kind)) => t_result.out = "None")

\* None came back for a session whose start is an aware datetime: the end is
\* a bare time and the session has no date
C20_Witness ==
    /\ t_pc = "done"
    /\ t_result.out = "None"
    /\ Aware(Given("start"))
    /\ Given("end").type = "time"
    /\ session_date = NoDate

-----------------------------------------------------------------------------
(* Root.add_course: run years, self-study courses and base courses *)

\* C21: for every slug and year, the slug is in run_years[year] exactly when
\* courses[slug] has a start date and the year lies between its start and end
\* years (no year does when the end date is None), it is in self_study_courses
\* exactly when courses[slug] is there without a start date, and each entry is
\* the course object now in courses[slug].
C21_RunYears ==
    \A s \in CourseSlugs :
       /\ \A y \in Years :
             /\ run_years[y].runs[s] # 0 <=>
                   /\ courses[s].obj # 0
                   /\ courses[s].start # 0
                   /\ y \in YearRange(courses[s])
             /\ run_years[y].runs[s] # 0 => run_years[y].made
             /\ run_years[y].runs[s] \in {0, courses[s].obj}
       /\ self_study_courses[s] # 0 <=>
             (courses[s].obj # 0 /\ courses[s].start = 0)
       /\ self_study_courses[s] \in {0, courses[s].obj}

\* a course that ran in both years was replaced by a self-study course
C21_Witness ==
    /\ \E s \in CourseSlugs :
          /\ courses[s].obj > 1
          /\ self_study_courses[s] = courses[s].obj
          /\ \A y \in Years : run_years[y].made /\ run_years[y].runs[s] = 0
    /\ r_ret.res = "ok"

\* C22: every course in Root.courses has as base_course the course now in
\* courses['courses/' + derives], or None when there is no such course.
C22_BaseCourse ==
    \A s \in CourseSlugs :
       courses[s].obj # 0 => courses[s].base = base_course(courses[s].derives)

-----------------------------------------------------------------------------
(* CourseHTMLFragment and the Arca renderer *)

\* C23: once a read of a fragment built from a path has succeeded, every
\* later read returns that same value and makes no renderer.get_path_or_file
\* call, whatever has become of the file; a fragment built from inline text
\* never calls the renderer and its reads succeed.
C23_ReadOnce ==
    /\ [][(fr_reads' # fr_reads /\ fr_first # NoContent) =>
             /\ fr_ret' = [res |-> "ok", value |-> fr_first]
             /\ fr_calls' = fr_calls]_vars
    /\ [](~fr_path => fr_calls = 0 /\ fr_ret.res \in {"none", "ok"})

\* a fragment built from a path was read again after its file had changed:
\* one renderer call in all, and the first value again
C23_Witness ==
    /\ fr_path
    /\ fr_reads >= 2
    /\ fr_calls = 1
    /\ fr_ret = [res |-> "ok", value |-> fr_first]
    /\ fr_file # NoFile
    /\ convert(fr_file) # fr_first

\* C24: when 'url#branch' matches none of the trusted patterns, as always
\* when there are none, the constructor raises UntrustedRepo: no renderer is
\* made and no Arca method is ever called.
C24_Untrusted ==
    (\A l \in a_patterns : ~fnmatch(a_url \o <<"#">> \o a_branch, l)) =>
        /\ a_pc \in {"none", "new", "refused"}
        /\ a_calls = 0

\* the constructor refused a repository with an empty pattern list
C24_Witness ==
    /\ a_pc = "refused"
    /\ a_patterns = {}
    /\ a_calls = 0

-----------------------------------------------------------------------------
(* load_all_lessons and load_lessons: errors *)

\* C25: when load_all_lessons has raised 'linked too deeply', a requested
\* lesson slug is still unresolved.
C25_TooDeepUnresolved ==
    (d_pc = "done" /\ d_res = "TooDeep") => d_requested \ d_lessons # {}

\* C26: when load_lessons(slugs), called directly or by lessons[slug], has
\* raised, no lesson it inserted is in the resolved-lessons map.
C26_FailedBatch ==
    (cpc = "done" /\ ret.op \in {"getitem", "load_lessons"} /\ ret.res # "ok") =>
        inserted = {}

\* C27: on a frozen course the content of the solution of every resolved
\* lesson is materialized: none is still a path to be read on access.
C27_SolutionsFrozen ==
    frozen => \A slug \in Resolved : lessons[slug].solution # "path"

\* C28: on a course whose freeze() has raised (it is freezing and not frozen
\* with no operation running) no step sets the frozen flag or clears the
\* freezing flag, a freeze() returns at once without error, without a renderer
\* call and without touching a lesson, no operation begun on such a course
\* ends with the course frozen, and lessons[slug] still loads: every lesson a
\* successful lookup inserted has its page content materialized.
C28_NeverRetried ==
    [][/\ (cpc = "idle" /\ freezing /\ ~frozen) =>
             /\ freezing' /\ ~frozen'
             /\ FreezeCalled =>
                   /\ cpc' = "done"
                   /\ ret'.res = "ok"
                   /\ rcalls' = <<>>
                   /\ lessons' = lessons
       /\ (cpc \notin {"new", "idle"} /\ entry.freezing /\ ~entry.frozen) =>
             /\ ~frozen'
             /\ (cpc' = "done" /\ ret'.op = "getitem" /\ ret'.res = "ok") =>
                   \A s \in inserted' : lessons'[s].ready]_vars

\* after a failed freeze, lessons[slug] has loaded and returned a lesson
C28_Witness ==
    /\ cpc = "done"
    /\ ret.op = "getitem" /\ ret.res = "ok"
    /\ entry.freezing /\ ~entry.frozen
    /\ inserted # {}
    /\ ~frozen

\* C29: iter(course.lessons) or len(course.lessons) on a course that is
\* neither frozen nor freezing runs a whole freeze(): when it returns, the
\* course is frozen (and freezing) and no requested lesson is unresolved; when
\* it raises, the freeze's error reached the caller and the course is left
\* freezing, not frozen.  No step of a lessons[slug] lookup changes the frozen
\* or the freezing flag.
C29_IterationFreezes ==
    [][/\ (cpc' = "done" /\ ret'.op = "iter"
              /\ ~entry'.frozen /\ ~entry'.freezing) =>
             IF ret'.res = "ok"
             THEN /\ frozen' /\ freezing'
                  /\ requested' \ Resolved' = {}
             ELSE freezing' /\ ~frozen'
       /\ (op'.name = "getitem" \/ (cpc' = "done" /\ ret'.op = "getitem")) =>
             UNCHANGED <<frozen, freezing>>]_vars

\* iteration has frozen a course, loading a lesson on the way
C29_Witness ==
    /\ cpc = "done"
    /\ ret.op = "iter" /\ ret.res = "ok"
    /\ ~entry.frozen /\ ~entry.freezing
    /\ inserted # {}
    /\ frozen

\* C30: no fetch call drops a registered stale branch it did not fetch: a
\* branch registered for the call's URL, not yet fetched by this Fetcher and
\* stale at the call, is still registered after a fetch that returns early
\* because the requested branch is fresh, and the branches a git fetch was to
\* fetch are still registered after that git fetch failed.
C30_RegisteredKept ==
    [][\A t \in Threads :
          /\ (pc[t] = "body" /\ pc'[t] = "idle") =>
                \A b \in registered_branches[call[t].f][call[t].url] :
                    (b \notin fetched_branches[call[t].f][call[t].url]
                        /\ IsStale(call[t].url, b, clock)) =>
                        b \in registered_branches'[call[t].f][call[t].url]
          /\ (pc[t] = "git" /\ pc'[t] = "idle" /\ returned' = returned) =>
                to_fetch[t] \subseteq
                    registered_branches'[call[t].f][call[t].url]]_vars

====
